---- MODULE Spec2Model ----
(***************************************************************************)
(* Model of the montage voice changer: the control surface (gui.rs), the   *)
(* audio session with its capture and render callbacks (audio.rs) and the  *)
(* pitch-shift engine (dsp.rs).                                            *)
(*                                                                         *)
(* Units.  Pitch ratios are integers in units of 1/10000 (1.0 = 10000),    *)
(* read cursors likewise (one buffer cell = 10000).  Delays are whole      *)
(* milliseconds.  Sample rates are the program's rates divided by          *)
(* RateScale, so that 100 ms of samples is a handful of samples.  Raw      *)
(* capture samples are even integers, so that halving a sum is exact.      *)
(* A sample produced by the engine is named by the ordinal of the engine   *)
(* step that produced it (1, 2, ...); Silence is the literal 0.0 and       *)
(* Unwritten marks an output position the callback has not stored to.      *)
(***************************************************************************)
EXTENDS Integers, Sequences, FiniteSets, TLC

\* ------------------------------------------------------------------ bounds
MaxCaptures == 5      \* capture callback invocations
MaxRenders == 2       \* render callback invocations
MaxGuiUpdates == 2    \* messages handled by the control surface
MaxFrames == 2        \* stereo frames of one render period
MaxData == 4          \* interleaved samples of one capture period
MaxCalls == 2         \* calls of process made by a stand-alone client
MaxLen == 2           \* slice lengths a stand-alone client passes to process
SigBlock == 256       \* mono samples of a block whose sample values are followed
MaxSigBlocks == 1     \* such blocks
MaxLoud == 2          \* leading samples of the input that may be other than 0.0
CaptureCalls == 2     \* capture periods whose block is any block
LifeCallbacks == 1    \* invocations of each callback while start-up and shutdown are followed
CompMax == 1200       \* largest magnitude given to the compressor (1.2)
CompGap == 3          \* largest distance between two magnitudes that are compared
RateScale == 2205     \* model sample rate = program sample rate / RateScale

\* ------------------------------------------------------- program constants
channels == 2
BridgeCapacity == 4
RingLen == 128
ReadIndexB0 == 1024
Silence == 0
Unwritten == -1

Min(a, b) == IF a <= b THEN a ELSE b

\* Rust's `as usize` / f32 multiplication by a small fraction: truncation
\* toward zero, written for either sign.
TruncDiv(a, b) == IF a >= 0 THEN a \div b ELSE -((-a) \div b)

\* ------------------------------------------------------------ gui.rs types
SampleRates == {"Rate22050", "Rate44100", "Rate48000", "Rate96000"}

to_hz(r) ==
    CASE r = "Rate22050" -> 22050
      [] r = "Rate44100" -> 44100
      [] r = "Rate48000" -> 48000
      [] r = "Rate96000" -> 96000

DefaultSettings ==
    [pitch |-> 10000, sample_rate |-> "Rate44100", buffer_size |-> 256, delay_ms |-> 0]

\* slider positions the model lets the user pick
PitchChoices == {20000}
BufferSliderChoices == {6}
DelayChoices == {0, 100}

RECURSIVE Pow2(_)
Pow2(n) == IF n = 0 THEN 1 ELSE 2 * Pow2(n - 1)

Messages ==
    [type : {"PitchChanged"}, val : PitchChoices]
    \cup [type : {"SampleRateChanged"}, val : {"Rate22050"}]
    \cup [type : {"BufferSizeChanged"}, val : BufferSliderChoices]
    \cup [type : {"DelayChanged"}, val : DelayChoices]

\* the match arms of update that change self.settings
ApplyMessage(s, m) ==
    CASE m.type = "PitchChanged" -> [s EXCEPT !.pitch = m.val]
      [] m.type = "SampleRateChanged" -> [s EXCEPT !.sample_rate = m.val]
      [] m.type = "BufferSizeChanged" ->
            [s EXCEPT !.buffer_size = Min(IF Pow2(m.val) < 64 THEN 64 ELSE Pow2(m.val), 2048)]
      [] m.type = "DelayChanged" -> [s EXCEPT !.delay_ms = m.val]

\* ------------------------------------------------------------------ dsp.rs
\* DspProcessor::new
NewDsp ==
    [write_index |-> 0,
     read_index_a |-> 0,
     read_index_b |-> ReadIndexB0 * 10000,
     current_pitch |-> 10000,
     target_pitch |-> 10000,
     steps |-> 0]

\* faulty variant of Clamp: the upper bound is forgotten
ClampLow(p) == IF p < 5000 THEN 5000 ELSE p

\* faulty variant of Clamp: the lower bound is forgotten
ClampHigh(p) == IF p > 20000 THEN 20000 ELSE p

\* f32::clamp(0.5, 2.0)
Clamp(p) == IF p < 5000 THEN 5000 ELSE IF p > 20000 THEN 20000 ELSE p

\* faulty variant of ReadPitch: self.pitch.lock().unwrap(), which panics on a
\* poisoned mutex
ReadPitchUnwrap(cell) ==
    IF cell.poisoned
    THEN [pitch |-> 10000, logged |-> FALSE, panicked |-> TRUE]
    ELSE [pitch |-> Clamp(cell.value), logged |-> FALSE, panicked |-> FALSE]

\* the pitch read at the head of process:
\*   match self.pitch.lock() { Ok(pitch) => clamp, Err(_) => { eprintln!(..); 1.0 } }
ReadPitch(cell) ==
    IF cell.poisoned
    THEN [pitch |-> 10000, logged |-> TRUE, panicked |-> FALSE]
    ELSE [pitch |-> Clamp(cell.value), logged |-> FALSE, panicked |-> FALSE]

\* a read cursor advanced by read_step and wrapped by one subtraction
AdvanceCursor(idx, step) ==
    IF idx + step >= RingLen * 10000 THEN idx + step - RingLen * 10000 ELSE idx + step

\* one iteration of the sample loop of process
DspStep(d) ==
    LET cp == d.current_pitch + TruncDiv(d.target_pitch - d.current_pitch, 100)
        read_step == 100000000 \div cp
    IN  [d EXCEPT !.current_pitch = cp,
                  !.write_index = (d.write_index + 1) % RingLen,
                  !.read_index_a = AdvanceCursor(d.read_index_a, read_step),
                  !.read_index_b = AdvanceCursor(d.read_index_b, read_step),
                  !.steps = d.steps + 1]

RECURSIVE DspRun(_, _)
DspRun(d, n) ==
    IF n = 0 THEN d
    ELSE LET e == DspStep(d) IN IF e.steps > d.steps THEN DspRun(e, n - 1) ELSE e

\* faulty variant of ProcessLen: the length of the input alone
ProcessLenInput(in_len, out_len) == in_len

\* let process_len = input.len().min(output.len());
ProcessLen(in_len, out_len) == Min(in_len, out_len)

\* DspProcessor::process(input, output): the engine after the call, the
\* output slice after the call, whether the lock failure was printed on
\* stderr and whether the call panicked.
Process(d, cell, in_len, out) ==
    LET rd == ReadPitch(cell)
        d0 == [d EXCEPT !.target_pitch = rd.pitch]
        n == ProcessLen(in_len, Len(out))
    IN  IF rd.panicked
        THEN [dsp |-> d, out |-> out, logged |-> rd.logged, panicked |-> TRUE]
        ELSE [dsp |-> DspRun(d0, n),
              out |-> [i \in 1..Len(out) |-> IF i <= n THEN d.steps + i ELSE Silence],
              logged |-> rd.logged,
              panicked |-> FALSE]

\* ------------------------------------------------- dsp.rs, the signal path
\* Sample values are integers in units of 1/1000 (1.0 = 1000); the crossfade
\* phase is in units of 1/1000 radian and the crossfade weight in units of
\* 1/10000.  A product with a decimal fraction is truncated toward zero.
threshold == 700
knee_width == 100
crossfade_step == 5
TwoPi == 6283

Abs(x) == IF x < 0 THEN -x ELSE x

NewSigCharged ==
    [ring_buffer_a |-> [i \in 0..(RingLen - 1) |-> 0],
     ring_buffer_b |-> [i \in 0..(RingLen - 1) |-> 0],
     crossfade_pos |-> 0,
     filter_state_1 |-> 0, filter_state_2 |-> 0,
     dc_filter_x |-> 0, dc_filter_y |-> 500]

\* the signal fields of DspProcessor::new: both rings, both filters and the
\* DC blocker at 0.0, the crossfade phase at 0.0
NewSig ==
    [ring_buffer_a |-> [i \in 0..(RingLen - 1) |-> 0],
     ring_buffer_b |-> [i \in 0..(RingLen - 1) |-> 0],
     crossfade_pos |-> 0,
     filter_state_1 |-> 0, filter_state_2 |-> 0,
     dc_filter_x |-> 0, dc_filter_y |-> 0]

\* multi_stage_filter: the two one-pole low-pass stages after one input
multi_stage_filter(s, input) ==
    LET f1 == TruncDiv(s.filter_state_1 * 85, 100) + TruncDiv(input * 15, 100)
        f2 == TruncDiv(s.filter_state_2 * 9, 10) + TruncDiv(f1, 10)
    IN  [filter_state_1 |-> f1, filter_state_2 |-> f2]

\* cubic_interpolated_read: Catmull-Rom through the four cells around
\* read_index (in 1/10000 of a cell); every cell index is taken modulo the
\* buffer length
cubic_interpolated_read(buffer, read_index) ==
    LET index == read_index \div 10000
        fraction == read_index % 10000
        y0 == buffer[(index + RingLen - 1) % RingLen]
        y1 == buffer[index % RingLen]
        y2 == buffer[(index + 1) % RingLen]
        y3 == buffer[(index + 2) % RingLen]
        a2 == -y0 + 3 * y1 - 3 * y2 + y3          \* 2a
        b2 == 2 * y0 - 5 * y1 + 4 * y2 - y3       \* 2b
        c2 == -y0 + y2                            \* 2c
        t1 == TruncDiv(a2 * fraction, 10000) + b2
        t2 == TruncDiv(t1 * fraction, 10000) + c2
    IN  TruncDiv(TruncDiv(t2 * fraction, 10000), 2) + y1

\* sin of a phase in [0, 2 pi), in units of 1/10000, by Bhaskara's rational
\* form 16 t (pi - t) / (5 pi^2 - 4 t (pi - t)) on each half period
Sin(pos) ==
    LET t == IF pos <= 3142 THEN pos ELSE pos - 3142
        p == IF t > 3142 THEN 0 ELSE t * (3142 - t)
        v == (4 * p * 100) \div ((49360820 - 4 * p) \div 400)
    IN  IF pos <= 3142 THEN v ELSE -v

\* (self.crossfade_pos.sin() + 1.0) * 0.5
CrossfadeWeight(pos) == (Sin(pos) + 10000) \div 2

\* dc_blocking_filter: input - x + 0.995 * y
dc_blocking_filter(s, input) == input - s.dc_filter_x + TruncDiv(995 * s.dc_filter_y, 1000)

\* faulty variant of CompressKnee: the knee runs down to ratio 0 in place of
\* ratio 0.3
CompressKneeToZero(abs_input) ==
    LET m == abs_input - (threshold - knee_width)
        P == m * m * (3 * knee_width - m)
        R == 40000000 - 10 * P
        excess == abs_input - threshold
    IN  threshold + ((excess * (R \div 10000) + ((excess * (R % 10000)) \div 10000)) \div 4000)

\* the knee branch of advanced_soft_compress, for threshold - knee_width <
\* abs_input < threshold + knee_width:
\*   knee_ratio = m / (2 W), smooth_ratio = knee_ratio^2 (3 - 2 knee_ratio),
\*   current_ratio = 1 - 0.7 smooth_ratio, result threshold + excess * current_ratio.
\* With m = abs_input - (T - W) this is T + excess * R / 40000000 for
\* R = 40000000 - 7 m^2 (3 W - m), computed exactly and rounded down once.
CompressKnee(abs_input) ==
    LET m == abs_input - (threshold - knee_width)
        P == m * m * (3 * knee_width - m)
        R == 40000000 - 7 * P
        excess == abs_input - threshold
    IN  threshold + ((excess * (R \div 10000) + ((excess * (R % 10000)) \div 10000)) \div 4000)

\* the full-compression branch: threshold + (abs_input - threshold) * ratio
CompressHard(abs_input) == threshold + ((abs_input - threshold) * 3) \div 10

\* advanced_soft_compress
advanced_soft_compress(input) ==
    LET abs_input == Abs(input)
        sign == IF input >= 0 THEN 1 ELSE -1
    IN  IF abs_input <= threshold - knee_width THEN input
        ELSE IF abs_input >= threshold + knee_width THEN sign * CompressHard(abs_input)
        ELSE sign * CompressKnee(abs_input)

\* the signal part of one iteration of the sample loop of process: d is the
\* engine before the iteration, e the engine after it (cursors advanced)
SigStep(s, d, e, in_sample) ==
    LET f == multi_stage_filter(s, in_sample)
        filtered_input == f.filter_state_2
        ra == [s.ring_buffer_a EXCEPT ![d.write_index] = filtered_input]
        rb == [s.ring_buffer_b EXCEPT ![d.write_index] = filtered_input]
        sample_a == cubic_interpolated_read(ra, e.read_index_a)
        sample_b == cubic_interpolated_read(rb, e.read_index_b)
        crossfade_weight == CrossfadeWeight(s.crossfade_pos)
        crossfaded_sample == TruncDiv(sample_a * (10000 - crossfade_weight), 10000)
                             + TruncDiv(sample_b * crossfade_weight, 10000)
        pos == s.crossfade_pos + crossfade_step
        dc_blocked == dc_blocking_filter(s, crossfaded_sample)
        compressed_sample == advanced_soft_compress(dc_blocked)
        mixed_sample == TruncDiv(compressed_sample * 8, 10) + TruncDiv(filtered_input * 2, 10)
    IN  [sig |-> [ring_buffer_a |-> ra, ring_buffer_b |-> rb,
                  crossfade_pos |-> IF pos >= TwoPi THEN pos - TwoPi ELSE pos,
                  filter_state_1 |-> f.filter_state_1,
                  filter_state_2 |-> f.filter_state_2,
                  dc_filter_x |-> crossfaded_sample,
                  dc_filter_y |-> dc_blocked],
         out |-> mixed_sample]

\* ---------------------------------------------------------------- audio.rs
\* let max_delay_samples = (sample_rate as f32 * 0.1) as usize;
MaxDelaySamples(rate) == rate \div 10

\* ((delay_ms / 1000.0) * sample_rate as f32) as usize, then .min(max)
DelaySamples(delay_ms, rate, max) == Min((delay_ms * rate) \div 1000, max)

\* Both streams are built with BufferSize::Fixed, so the device hands every
\* callback of a session a block of one length; the lengths the two streams
\* get are the device's choice.  Sample j of a capture block is 2 * j.
DataLens == {0} \cup {channels * k : k \in 1..(MaxData \div channels)}
OutLens == {channels * f : f \in 1..MaxFrames}
CaptureData(n) == [j \in 1..n |-> 2 * j]

\* faulty variant of Downmix: an incomplete trailing frame is left out
DownmixWholeFrames(data) ==
    [f \in 1..(Len(data) \div channels) |->
        (data[channels * f - 1] + data[channels * f]) \div 2]

\* the input callback's downmix: data.chunks(channels), average of a full
\* frame, first sample of an incomplete one
Downmix(data) ==
    [f \in 1..((Len(data) + channels - 1) \div channels) |->
        IF channels = 2 /\ channels * f <= Len(data)
        THEN (data[channels * f - 1] + data[channels * f]) \div 2
        ELSE data[channels * (f - 1) + 1]]

\* faulty variant of TrySend: a full channel gives up its oldest block
TrySendDropOldest(ch, b) ==
    IF Len(ch) < BridgeCapacity THEN Append(ch, b) ELSE Append(Tail(ch), b)

\* SyncSender::try_send on the channel of capacity 4: Err(Full) drops the block
TrySend(ch, b) == IF Len(ch) < BridgeCapacity THEN Append(ch, b) ELSE ch

\* Receiver::try_recv: the oldest block, if any
TryRecv(ch) ==
    IF ch = <<>> THEN [ok |-> FALSE, rest |-> ch]
    ELSE [ok |-> TRUE, block |-> Head(ch), rest |-> Tail(ch)]

\* faulty variant of PushBack: the sample is pushed twice
PushTwice(q, x) == Append(Append(q, x), x)

\* delay_buffer.push_back(sample)
PushBack(q, x) == Append(q, x)

\* faulty variant of PopDelayed: the comparison is >=, one sample early
PopDelayedEarly(q, d) ==
    IF Len(q) >= d /\ q # <<>>
    THEN [sample |-> Head(q), rest |-> Tail(q), popped |-> TRUE]
    ELSE [sample |-> Silence, rest |-> q, popped |-> FALSE]

\* faulty variant of PopDelayed: pop_back in place of pop_front
PopDelayedBack(q, d) ==
    IF Len(q) > d
    THEN [sample |-> q[Len(q)], rest |-> SubSeq(q, 1, Len(q) - 1), popped |-> TRUE]
    ELSE [sample |-> Silence, rest |-> q, popped |-> FALSE]

\* faulty variant of PopDelayed: while delay_buffer.len() > delay_samples the
\* head is popped, and the last one popped is the delayed sample
PopDelayedDown(q, d) ==
    IF Len(q) > d
    THEN [sample |-> q[Len(q) - d], rest |-> SubSeq(q, Len(q) - d + 1, Len(q)), popped |-> TRUE]
    ELSE [sample |-> Silence, rest |-> q, popped |-> FALSE]

\* faulty variant of PopDelayed: nothing is ever popped
PopDelayedNever(q, d) == [sample |-> Silence, rest |-> q, popped |-> FALSE]

\* if delay_buffer.len() > delay_samples { pop_front().unwrap_or(0.0) } else { 0.0 }
PopDelayed(q, d) ==
    IF Len(q) > d
    THEN [sample |-> Head(q), rest |-> Tail(q), popped |-> TRUE]
    ELSE [sample |-> Silence, rest |-> q, popped |-> FALSE]

\* output[i * channels] = ...; output[i * channels + 1] = ... (i counted from 0)
WriteFrame(out, i, x) ==
    [p \in 1..Len(out) |->
        IF p = i * channels + 1 \/ (channels = 2 /\ p = i * channels + 2) THEN x ELSE out[p]]

\* for sample in output[from..].iter_mut() { *sample = 0.0; }
ZeroFrom(out, from) == [p \in 1..Len(out) |-> IF p > from THEN Silence ELSE out[p]]

Fresh(n) == [p \in 1..n |-> Unwritten]
Repeat(x, n) == [p \in 1..n |-> x]
Ids(ch) == [p \in 1..Len(ch) |-> ch[p].id]

VARIABLES
    settings,           \* VoiceChangerApp.settings
    shared_settings,    \* Arc<Mutex<AudioSettings>>
    gui_pc,             \* "idle", or "locked" while update holds the settings mutex
    gui_updates,
    phase,              \* run_audio: "starting", "running"
    sample_rate, max_delay_samples,
    data_len, out_len,  \* lengths of the blocks the device hands to the callbacks
    pitch_ref,          \* the pitch cell: [value, poisoned]
    dsp,
    channel,            \* the blocks queued between tx and rx
    delay_buffer,
    r_pc,               \* render callback: "idle", "push", "pop", "drain"
    output, processed_buffer, delay_samples, idx,
    captures, renders,
    sent, recvd, dropped,       \* ids of blocks enqueued, received, refused
    pushed, emitted, out_hist,  \* samples pushed, popped, and every frame written
    period,             \* what the current render period did
    steady,             \* whether every period so far was a steady one
    blocking,           \* blocking acquisitions made inside a callback
    calls, call, proc_out,      \* a stand-alone client of the engine: its calls of process
    buffer_size,        \* the buffer size of the stream configuration
    main_pc,            \* main: "gui", "closed", "joining", "done"
    shutdown_signal,    \* Arc<AtomicBool>
    streams,            \* the streams that are playing
    audio_exit,         \* how run_audio returned and what the audio thread printed
    flag_readers,       \* who has loaded shutdown_signal
    sig,                \* the signal fields of the engine
    sig_in, sig_out,    \* every sample fed to the engine and every sample it produced
    comp,               \* a pair of compressor inputs and their outputs
    captured            \* the last capture period: its block and the mono block made of it

vars == <<settings, shared_settings, gui_pc, gui_updates, phase, sample_rate,
          max_delay_samples, data_len, out_len, pitch_ref, dsp, channel, delay_buffer, r_pc, output,
          processed_buffer, delay_samples, idx, captures, renders, sent, recvd,
          dropped, pushed, emitted, out_hist, period, steady, blocking,
          calls, call, proc_out, buffer_size, main_pc, shutdown_signal, streams,
          audio_exit, flag_readers, sig, sig_in, sig_out, comp, captured>>

guiVars == <<settings, shared_settings, gui_pc, gui_updates>>
sessionVars == <<phase, sample_rate, max_delay_samples, data_len, out_len, buffer_size>>
renderVars == <<r_pc, output, processed_buffer, delay_samples, idx, renders,
                recvd, pushed, emitted, out_hist, period, steady, blocking>>
captureVars == <<captures, sent, dropped, captured>>
clientVars == <<calls, call, proc_out>>
lifeVars == <<main_pc, shutdown_signal, streams, audio_exit, flag_readers>>
signalVars == <<sig, sig_in, sig_out, comp>>

NoPeriod == [lock |-> "none", pulled |-> 0, block_len |-> 0, frames |-> 0,
             chan_before |-> 0, mirrored |-> FALSE, processed |-> FALSE, changed |-> FALSE,
             fed |-> <<>>]
NoCall == [cell |-> [value |-> 10000, poisoned |-> FALSE], in_len |-> 0, out_len |-> 0,
           before |-> NewDsp, logged |-> FALSE, panicked |-> FALSE]
NoCapture == [id |-> 0, data |-> <<>>, mono |-> <<>>]
NoExit == [result |-> "none", cause |-> "none", printed |-> FALSE, at_update |-> 0]
NoComp == [x1 |-> 0, x2 |-> 0, y1 |-> 0, y2 |-> 0, done |-> FALSE]

\* the state of main before it spawns the audio thread, and of the parts of
\* the model a specification does not exercise
LifeInit ==
    /\ main_pc = "gui"
    /\ shutdown_signal = FALSE
    /\ streams = {}
    /\ audio_exit = NoExit
    /\ flag_readers = {}

SignalInit ==
    /\ sig = NewSig
    /\ sig_in = <<>>
    /\ sig_out = <<>>
    /\ comp = NoComp

Init ==
    /\ settings = DefaultSettings
    /\ shared_settings = DefaultSettings
    /\ gui_pc = "idle"
    /\ gui_updates = 0
    /\ phase = "starting"
    /\ sample_rate = 0
    /\ max_delay_samples = 0
    /\ data_len = 0
    /\ out_len = 0
    /\ pitch_ref = [value |-> 10000, poisoned |-> FALSE]
    /\ dsp = NewDsp
    /\ channel = <<>>
    /\ delay_buffer = <<>>
    /\ r_pc = "idle"
    /\ output = <<>>
    /\ processed_buffer = <<>>
    /\ delay_samples = 0
    /\ idx = 0
    /\ captures = 0
    /\ renders = 0
    /\ sent = <<>>
    /\ recvd = <<>>
    /\ dropped = {}
    /\ pushed = <<>>
    /\ emitted = <<>>
    /\ out_hist = <<>>
    /\ period = NoPeriod
    /\ steady = [d |-> -1, ok |-> TRUE, full |-> TRUE, same |-> TRUE]
    /\ blocking = {}
    /\ calls = 0
    /\ call = NoCall
    /\ proc_out = <<>>
    /\ captured = NoCapture
    /\ buffer_size = 0
    /\ LifeInit
    /\ SignalInit

\* After its entry step a render invocation reads and writes only what the
\* callback owns (the processed block, the delay line, the output block), so a
\* step of another thread taken during its loops has the effect of the same
\* step taken after them; the other threads' steps are placed there.
RenderLocal == r_pc = "idle"

\* ----------------------------------------------------------- gui.rs update
\* update(message): the match arm, then self.shared_settings.lock()
GuiUpdate(m) ==
    /\ main_pc = "gui"
    /\ gui_pc = "idle"
    /\ RenderLocal
    /\ gui_updates < MaxGuiUpdates
    /\ gui_updates' = gui_updates + 1
    /\ settings' = ApplyMessage(settings, m)
    /\ gui_pc' = "locked"
    /\ UNCHANGED <<shared_settings, sessionVars, pitch_ref, dsp, channel, delay_buffer,
                   renderVars, captureVars, clientVars, lifeVars, signalVars>>

\* faulty variant of StoredRecord: only the pitch field is stored
StoredPitchOnly(shared, local) == [shared EXCEPT !.pitch = local.pitch]

\* *shared_settings = self.settings.clone(): the whole record is replaced
StoredRecord(shared, local) == local

\* *shared_settings = self.settings.clone(); the guard is dropped
GuiStore ==
    /\ gui_pc = "locked"
    /\ RenderLocal
    /\ shared_settings' = StoredRecord(shared_settings, settings)
    /\ gui_pc' = "idle"
    /\ UNCHANGED <<settings, gui_updates, sessionVars, pitch_ref, dsp, channel,
                   delay_buffer, renderVars, captureVars, clientVars, lifeVars, signalVars>>

\* ------------------------------------------------------- audio.rs run_audio
\* run_audio up to the start of both streams: settings.lock().unwrap() waits
\* for the control surface to release the mutex
AudioStart(dl, ol) ==
    /\ phase = "starting"
    /\ data_len' = dl
    /\ out_len' = ol
    /\ gui_pc = "idle"
    /\ phase' = "running"
    /\ sample_rate' = to_hz(shared_settings.sample_rate) \div RateScale
    /\ max_delay_samples' = MaxDelaySamples(to_hz(shared_settings.sample_rate) \div RateScale)
    /\ pitch_ref' = [value |-> shared_settings.pitch, poisoned |-> FALSE]
    /\ buffer_size' = shared_settings.buffer_size
    /\ dsp' = NewDsp
    /\ delay_buffer' = <<>>
    /\ channel' = <<>>
    /\ streams' = {"input", "output"}
    /\ UNCHANGED <<guiVars, renderVars, captureVars, clientVars, main_pc, shutdown_signal,
                   audio_exit, flag_readers, signalVars>>

\* the input stream callback
CaptureOn(data) ==
    /\ "input" \in streams
    /\ RenderLocal
    /\ captures < MaxCaptures
    /\ captures' = captures + 1
    /\ LET b == [id |-> captures + 1, samples |-> Downmix(data)]
           ch == TrySend(channel, b)
       IN  /\ channel' = ch
           /\ captured' = [id |-> b.id, data |-> data, mono |-> b.samples]
           /\ IF ch # channel
              THEN sent' = Append(sent, b.id) /\ dropped' = dropped
              ELSE sent' = sent /\ dropped' = dropped \cup {b.id}
    /\ UNCHANGED <<guiVars, sessionVars, pitch_ref, dsp, delay_buffer, renderVars,
                   clientVars, lifeVars, signalVars>>

\* the input stream callback on the block of the session's length
Capture == CaptureOn(CaptureData(data_len))

\* faulty variant of SettingsBusy: the callback goes on with the settings as last
\* stored although update holds the mutex
SettingsBusyIgnored == FALSE

\* settings_clone.try_lock() fails while update holds the settings mutex
SettingsBusy == gui_pc = "locked"

\* faulty variant of PitchAtProcess: the mirror store comes after the call of
\* process
PitchBeforeMirror(before, mirrored) == before

\* the pitch cell as process finds it: *pitch_lock = settings.pitch is stored
\* inside the snapshot block, before dsp.process is called
PitchAtProcess(before, mirrored) == mirrored

\* faulty variant of RenderProcessLen: the whole block is processed
RenderProcessLenBlock(o_len, in_len) == in_len * channels

\* let process_len = output.len().min(input_buffer.len() * channels);
RenderProcessLen(o_len, in_len) == Min(o_len, in_len * channels)

\* &input_buffer[..mono_len], the slice handed to process
EngineInput(samples, mono_len) == SubSeq(samples, 1, mono_len)

\* faulty variant of ContendedOutput: the block is filled with silence before
\* the return
ContendedSilence(handed) == ZeroFrom(handed, 0)

\* the output block after the early return of a contended callback: return;
\* comes before any store to output
ContendedOutput(handed) == handed

\* the output stream callback, from its entry to the first sample of a loop
RenderBegin ==
    /\ "output" \in streams
    /\ r_pc = "idle"
    /\ renders < MaxRenders
    /\ renders' = renders + 1
    /\ IF SettingsBusy
       THEN \* settings_clone.try_lock() failed: return
            /\ output' = ContendedOutput(Fresh(out_len))
            /\ period' = [NoPeriod EXCEPT !.lock = "busy", !.frames = out_len \div channels,
                                          !.chan_before = Len(channel)]
            /\ steady' = [steady EXCEPT !.ok = FALSE]
            /\ out_hist' = out_hist \o Repeat(Unwritten, out_len \div channels)
            /\ UNCHANGED <<pitch_ref, dsp, channel, delay_buffer, r_pc, processed_buffer,
                           delay_samples, idx, recvd, blocking>>
       ELSE LET current_settings == shared_settings
                n == out_len
                cell == IF pitch_ref.poisoned THEN pitch_ref
                        ELSE [pitch_ref EXCEPT !.value = current_settings.pitch]
                ds == DelaySamples(current_settings.delay_ms, sample_rate, max_delay_samples)
                r == TryRecv(channel)
                in_len == IF r.ok THEN Len(r.block.samples) ELSE 0
                process_len == RenderProcessLen(n, in_len)
                mono_len == process_len \div channels
                input == IF r.ok THEN EngineInput(r.block.samples, mono_len) ELSE <<>>
                res == Process(dsp, PitchAtProcess(pitch_ref, cell), Len(input),
                               Repeat(Silence, mono_len))
                per == [lock |-> "ok", pulled |-> IF r.ok THEN r.block.id ELSE 0,
                        block_len |-> in_len, frames |-> n \div channels,
                        chan_before |-> Len(channel), mirrored |-> ~pitch_ref.poisoned,
                        processed |-> FALSE,
                        changed |-> ~pitch_ref.poisoned /\ pitch_ref.value # current_settings.pitch,
                        fed |-> <<>>]
            IN  /\ pitch_ref' = cell
                /\ delay_samples' = ds
                /\ channel' = r.rest
                /\ recvd' = IF r.ok THEN Append(recvd, r.block.id) ELSE recvd
                /\ idx' = 0
                /\ steady' = [d |-> IF steady.d = -1 THEN ds ELSE steady.d,
                              ok |-> steady.ok /\ steady.d \in {-1, ds} /\ in_len > 0,
                              full |-> steady.full /\ in_len >= n \div channels,
                              same |-> steady.same /\ steady.d \in {-1, ds}]
                /\ IF r.ok /\ in_len > 0 /\ mono_len > 0
                   THEN /\ dsp' = res.dsp
                        /\ processed_buffer' = res.out
                        /\ blocking' = blocking \cup {"pitch.lock()"}
                        /\ period' = [per EXCEPT !.processed = TRUE, !.fed = input]
                        /\ output' = Fresh(n)
                        /\ r_pc' = "push"
                        /\ out_hist' = out_hist
                   ELSE IF r.ok
                   THEN /\ output' = ZeroFrom(Fresh(n), 0)
                        /\ out_hist' = out_hist \o Repeat(Silence, n \div channels)
                        /\ period' = per
                        /\ r_pc' = "idle"
                        /\ UNCHANGED <<dsp, processed_buffer, blocking>>
                   ELSE /\ output' = Fresh(n)
                        /\ out_hist' = out_hist
                        /\ period' = per
                        /\ r_pc' = IF n \div channels > 0 THEN "drain" ELSE "idle"
                        /\ UNCHANGED <<dsp, processed_buffer, blocking>>
                /\ UNCHANGED delay_buffer
    /\ UNCHANGED <<guiVars, sessionVars, pushed, emitted, captureVars, clientVars, lifeVars, signalVars>>

\* delay_buffer.push_back(sample) for sample idx of the processed block
RenderPush ==
    /\ r_pc = "push"
    /\ delay_buffer' = PushBack(delay_buffer, processed_buffer[idx + 1])
    /\ pushed' = Append(pushed, processed_buffer[idx + 1])
    /\ r_pc' = "pop"
    /\ UNCHANGED <<guiVars, sessionVars, pitch_ref, dsp, channel, output, processed_buffer,
                   delay_samples, idx, renders, recvd, emitted, out_hist, period, steady,
                   blocking, captureVars, clientVars, lifeVars, signalVars>>

\* the delayed sample of frame idx and its store; after the last sample of the
\* block the rest of the output is filled with silence and the callback returns
RenderPop ==
    /\ r_pc = "pop"
    /\ LET p == PopDelayed(delay_buffer, delay_samples)
           mono_len == Len(processed_buffer)
           last == idx + 1 = mono_len
           written == IF idx * channels < Len(output) THEN WriteFrame(output, idx, p.sample)
                      ELSE output
       IN  /\ delay_buffer' = p.rest
           /\ emitted' = IF p.popped THEN Append(emitted, p.sample) ELSE emitted
           /\ output' = IF last THEN ZeroFrom(written, mono_len * channels) ELSE written
           /\ out_hist' = IF last
                          THEN Append(out_hist, p.sample)
                               \o Repeat(Silence, (Len(output) - mono_len * channels) \div channels)
                          ELSE Append(out_hist, p.sample)
           /\ idx' = IF last THEN 0 ELSE idx + 1
           /\ processed_buffer' = IF last THEN <<>> ELSE processed_buffer
           /\ r_pc' = IF last THEN "idle" ELSE "push"
    /\ UNCHANGED <<guiVars, sessionVars, pitch_ref, dsp, channel,
                   delay_samples, renders, recvd, pushed, period, steady, blocking,
                   captureVars, clientVars, lifeVars, signalVars>>

\* one frame of the no-block branch: for i in 0..(output.len() / channels)
RenderDrain ==
    /\ r_pc = "drain"
    /\ LET p == PopDelayed(delay_buffer, delay_samples)
           last == idx + 1 = Len(output) \div channels
       IN  /\ delay_buffer' = p.rest
           /\ emitted' = IF p.popped THEN Append(emitted, p.sample) ELSE emitted
           /\ output' = IF idx * channels < Len(output) THEN WriteFrame(output, idx, p.sample)
                        ELSE output
           /\ out_hist' = Append(out_hist, p.sample)
           /\ idx' = IF last THEN 0 ELSE idx + 1
           /\ r_pc' = IF last THEN "idle" ELSE "drain"
    /\ UNCHANGED <<guiVars, sessionVars, pitch_ref, dsp, channel, processed_buffer,
                   delay_samples, renders, recvd, pushed, period, steady, blocking,
                   captureVars, clientVars, lifeVars, signalVars>>

Next ==
    \/ \E m \in Messages : GuiUpdate(m)
    \/ GuiStore
    \/ \E dl \in DataLens, ol \in OutLens : AudioStart(dl, ol)
    \/ Capture
    \/ RenderBegin
    \/ RenderPush
    \/ RenderPop
    \/ RenderDrain

Spec == Init /\ [][Next]_vars

\* ------------------------------------------- main.rs: start-up and shutdown
FailureCauses ==
    {"no_input_device", "no_output_device", "build_input_stream", "build_output_stream",
     "play_input_stream", "play_output_stream"}

\* the streams that are playing when start-up fails with the cause: only
\* output_stream.play() fails after a stream has been started
PlayingAtError(cause) == IF cause = "play_output_stream" THEN {"input"} ELSE {}

\* faulty variant of DropLocals: the streams built so far are leaked
KeepLocals(playing) == playing

\* the ? operator returns from run_audio, which drops input_stream and
\* output_stream as far as they exist
DropLocals(playing) == {}

\* run_audio returns Err: no device (ok_or_else ... ?), build_input_stream,
\* build_output_stream or play fails (?); the closure of the audio thread
\* prints the error and the thread ends
AudioFail(cause) ==
    /\ phase = "starting"
    /\ phase' = "failed"
    /\ streams' = DropLocals(PlayingAtError(cause))
    /\ audio_exit' = [result |-> "err", cause |-> cause, printed |-> TRUE,
                      at_update |-> gui_updates]
    /\ UNCHANGED <<guiVars, sample_rate, max_delay_samples, data_len, out_len, buffer_size,
                   pitch_ref, dsp, channel, delay_buffer, renderVars, captureVars,
                   clientVars, main_pc, shutdown_signal, flag_readers, signalVars>>

\* the window is closed: VoiceChangerApp::run returns
GuiClose ==
    /\ main_pc = "gui"
    /\ gui_pc = "idle"
    /\ RenderLocal
    /\ main_pc' = "closed"
    /\ UNCHANGED <<guiVars, sessionVars, pitch_ref, dsp, channel, delay_buffer, renderVars,
                   captureVars, clientVars, shutdown_signal, streams, audio_exit,
                   flag_readers, signalVars>>

\* shutdown_signal.store(true, Ordering::Relaxed)
MainSignal ==
    /\ main_pc = "closed"
    /\ RenderLocal
    /\ shutdown_signal' = TRUE
    /\ main_pc' = "joining"
    /\ UNCHANGED <<guiVars, sessionVars, pitch_ref, dsp, channel, delay_buffer, renderVars,
                   captureVars, clientVars, streams, audio_exit, flag_readers, signalVars>>

\* faulty variant of ShutdownRequested: the loop never sees the flag
ShutdownNeverSeen == FALSE

\* shutdown_signal.load(Ordering::Relaxed)
ShutdownRequested == shutdown_signal

\* the supervising loop finds the flag set and leaves (an iteration that
\* finds it clear sleeps 50 ms and changes nothing)
AudioObserve ==
    /\ phase = "running"
    /\ RenderLocal
    /\ ShutdownRequested
    /\ phase' = "stopping"
    /\ flag_readers' = flag_readers \cup {"run_audio"}
    /\ UNCHANGED <<guiVars, sample_rate, max_delay_samples, data_len, out_len, buffer_size,
                   pitch_ref, dsp, channel, delay_buffer, renderVars, captureVars,
                   clientVars, main_pc, shutdown_signal, streams, audio_exit, signalVars>>

\* drop(input_stream); drop(output_stream); Ok(()): a callback in flight
\* runs to its end before its stream is gone
AudioShutdown ==
    /\ phase = "stopping"
    /\ r_pc = "idle"
    /\ streams' = {}
    /\ phase' = "returned"
    /\ audio_exit' = [result |-> "ok", cause |-> "none", printed |-> FALSE,
                      at_update |-> gui_updates]
    /\ UNCHANGED <<guiVars, sample_rate, max_delay_samples, data_len, out_len, buffer_size,
                   pitch_ref, dsp, channel, delay_buffer, renderVars, captureVars,
                   clientVars, main_pc, shutdown_signal, flag_readers, signalVars>>

\* audio_handle.join() returns once the audio thread has ended; main returns
MainJoin ==
    /\ main_pc = "joining"
    /\ phase \in {"returned", "failed"}
    /\ main_pc' = "done"
    /\ UNCHANGED <<guiVars, sessionVars, pitch_ref, dsp, channel, delay_buffer, renderVars,
                   captureVars, clientVars, shutdown_signal, streams, audio_exit,
                   flag_readers, signalVars>>

LifeNext ==
    \/ \E m \in Messages : GuiUpdate(m)
    \/ GuiStore
    \/ AudioStart(channels, channels)
    \/ \E cause \in FailureCauses : AudioFail(cause)
    \/ (captures < LifeCallbacks /\ Capture)
    \/ (renders < LifeCallbacks /\ RenderBegin)
    \/ RenderPush
    \/ RenderPop
    \/ RenderDrain
    \/ GuiClose
    \/ MainSignal
    \/ AudioObserve
    \/ AudioShutdown
    \/ MainJoin

\* The device hands both callbacks blocks of one frame, LifeCallbacks times.
\* The threads of main and of run_audio are scheduled: a step of theirs that
\* stays possible is taken, and a callback that has begun runs to its end.
\* Nothing makes the user close the window or the device call a callback.
LifeFairness ==
    /\ WF_vars(MainSignal)
    /\ WF_vars(MainJoin)
    /\ WF_vars(AudioStart(channels, channels)
                 \/ (\E cause \in FailureCauses : AudioFail(cause)))
    /\ WF_vars(AudioObserve)
    /\ WF_vars(AudioShutdown)
    /\ WF_vars(GuiStore)
    /\ WF_vars(RenderPush \/ RenderPop \/ RenderDrain)

LifeSpec == Init /\ [][LifeNext]_vars /\ LifeFairness

\* ------------------------------------------- the engine under its own client
\* DspProcessor is a public type: new takes any Arc<Mutex<f32>> and the owner
\* of the other handle may store any number into it, or panic while holding its
\* guard, which poisons the mutex.
ExtPitch == {1000, 10000, 15000, 50000}
SliceLens == 0..MaxLen

\* engines a client can hold: a new one, and one that has processed 127
\* samples at pitch 1.0 (its write cursor is about to wrap)
\* 127 engine steps from new, run in three legs
WarmDsp == DspRun(DspRun(DspRun(NewDsp, 42), 42), RingLen - 85)

\* k times 40 further sample steps of an engine
RECURSIVE DspLegs(_, _)
DspLegs(d, k) ==
    IF k = 0 THEN d
    ELSE LET e == DspRun(d, 40) IN IF e.steps > d.steps THEN DspLegs(e, k - 1) ELSE e

\* engines that have processed 600 samples with the pitch cell at 2.0 or
\* above, and at 0.5 or below: current_pitch has come as near to the end of
\* the range as the smoothing takes it
HighDsp == DspLegs([NewDsp EXCEPT !.target_pitch = 20000], 15)
LowDsp == DspLegs([NewDsp EXCEPT !.target_pitch = 5000], 15)

EngineInit ==
    /\ settings = DefaultSettings
    /\ shared_settings = DefaultSettings
    /\ gui_pc = "idle"
    /\ gui_updates = 0
    /\ phase = "starting"
    /\ sample_rate = 0
    /\ max_delay_samples = 0
    /\ data_len = 0
    /\ out_len = 0
    /\ pitch_ref \in [value : ExtPitch, poisoned : {FALSE}]
    /\ dsp \in {NewDsp, WarmDsp, HighDsp, LowDsp}
    /\ channel = <<>>
    /\ delay_buffer = <<>>
    /\ r_pc = "idle"
    /\ output = <<>>
    /\ processed_buffer = <<>>
    /\ delay_samples = 0
    /\ idx = 0
    /\ captures = 0
    /\ renders = 0
    /\ sent = <<>>
    /\ recvd = <<>>
    /\ dropped = {}
    /\ pushed = <<>>
    /\ emitted = <<>>
    /\ out_hist = <<>>
    /\ period = NoPeriod
    /\ steady = [d |-> -1, ok |-> TRUE, full |-> TRUE, same |-> TRUE]
    /\ blocking = {}
    /\ calls = 0
    /\ call = NoCall
    /\ proc_out = <<>>
    /\ captured = NoCapture
    /\ buffer_size = 0
    /\ LifeInit
    /\ SignalInit

mainVars == <<guiVars, sessionVars, channel, delay_buffer, renderVars, captureVars,
              lifeVars, signalVars>>

\* *pitch.lock().unwrap() = v, by the owner of the other handle
ClientSetPitch(v) ==
    /\ ~pitch_ref.poisoned
    /\ pitch_ref.value # v
    /\ pitch_ref' = [pitch_ref EXCEPT !.value = v]
    /\ UNCHANGED <<mainVars, dsp, clientVars>>

\* a thread of the client panics while it holds the guard
ClientPoison ==
    /\ ~pitch_ref.poisoned
    /\ pitch_ref' = [pitch_ref EXCEPT !.poisoned = TRUE]
    /\ UNCHANGED <<mainVars, dsp, clientVars>>

\* dsp.process(&input, &mut output) on slices of any two lengths
ClientProcess(in_len, o_len) ==
    /\ calls < MaxCalls
    /\ calls' = calls + 1
    /\ LET res == Process(dsp, pitch_ref, in_len, Fresh(o_len))
       IN  /\ dsp' = res.dsp
           /\ proc_out' = res.out
           /\ call' = [cell |-> pitch_ref, in_len |-> in_len, out_len |-> o_len,
                       before |-> dsp, logged |-> res.logged, panicked |-> res.panicked]
    /\ UNCHANGED <<mainVars, pitch_ref>>

EngineNext ==
    \/ \E v \in ExtPitch : ClientSetPitch(v)
    \/ ClientPoison
    \/ \E a \in SliceLens, b \in SliceLens : ClientProcess(a, b)

EngineSpec == EngineInit /\ [][EngineNext]_vars

\* ------------------------------------ a render period followed in its values
\* The session at delay 0 with blocks of SigBlock mono samples and output
\* blocks of SigBlock frames, the values of the samples followed through the
\* engine, the delay line and the output block.  The first MaxLoud input
\* samples are any of SigSamples, every later one is 0.0.
SigSamples == {-900, 0, 800}
SigPitches == {10000, 20000}

SigInit ==
    /\ settings = DefaultSettings
    /\ shared_settings = DefaultSettings
    /\ gui_pc = "idle"
    /\ gui_updates = 0
    /\ phase = "running"
    /\ sample_rate = to_hz("Rate44100") \div RateScale
    /\ max_delay_samples = MaxDelaySamples(to_hz("Rate44100") \div RateScale)
    /\ data_len = SigBlock * channels
    /\ out_len = SigBlock * channels
    /\ buffer_size = DefaultSettings.buffer_size
    /\ pitch_ref \in [value : SigPitches, poisoned : {FALSE}]
    /\ dsp = NewDsp
    /\ channel = <<>>
    /\ delay_buffer = <<>>
    /\ r_pc = "idle"
    /\ output = <<>>
    /\ processed_buffer = <<>>
    /\ delay_samples = 0
    /\ idx = 0
    /\ captures = 0
    /\ renders = 0
    /\ sent = <<>>
    /\ recvd = <<>>
    /\ dropped = {}
    /\ pushed = <<>>
    /\ emitted = <<>>
    /\ out_hist = <<>>
    /\ period = NoPeriod
    /\ steady = [d |-> -1, ok |-> TRUE, full |-> TRUE, same |-> TRUE]
    /\ blocking = {}
    /\ calls = 0
    /\ call = NoCall
    /\ proc_out = <<>>
    /\ captured = NoCapture
    /\ main_pc = "gui"
    /\ shutdown_signal = FALSE
    /\ streams = {"input", "output"}
    /\ audio_exit = NoExit
    /\ flag_readers = {}
    /\ SignalInit

\* the render callback with a block of SigBlock samples at hand, up to the
\* head of process: the pitch read and the clamp
SigRenderBegin ==
    /\ r_pc = "idle"
    /\ renders < MaxSigBlocks
    /\ renders' = renders + 1
    /\ dsp' = [dsp EXCEPT !.target_pitch = ReadPitch(pitch_ref).pitch]
    /\ processed_buffer' = <<>>
    /\ output' = Fresh(out_len)
    /\ idx' = 0
    /\ r_pc' = "process"
    /\ blocking' = blocking \cup {"pitch.lock()"}
    /\ UNCHANGED <<guiVars, sessionVars, pitch_ref, channel, delay_buffer, delay_samples,
                   recvd, pushed, emitted, out_hist, period, steady, captureVars,
                   clientVars, lifeVars, signalVars>>

\* one iteration of the sample loop of process on input sample x; after the
\* last one the callback goes on to its delay loop
SigSample(x) ==
    /\ r_pc = "process"
    /\ Len(sig_in) < MaxLoud \/ x = 0
    /\ LET e == DspStep(dsp)
           r == SigStep(sig, dsp, e, x)
           last == Len(processed_buffer) + 1 = SigBlock
       IN  /\ dsp' = e
           /\ sig' = r.sig
           /\ sig_in' = Append(sig_in, x)
           /\ sig_out' = Append(sig_out, r.out)
           /\ processed_buffer' = Append(processed_buffer, r.out)
           /\ r_pc' = IF last THEN "push" ELSE "process"
    /\ UNCHANGED <<guiVars, sessionVars, pitch_ref, channel, delay_buffer, output,
                   delay_samples, idx, renders, recvd, pushed, emitted, out_hist, period,
                   steady, blocking, captureVars, clientVars, lifeVars, comp>>

SignalNext ==
    \/ SigRenderBegin
    \/ \E x \in SigSamples : SigSample(x)
    \/ RenderPush
    \/ RenderPop

SignalSpec == SigInit /\ [][SignalNext]_vars

\* ------------------------------------------- the capture callback on its own
\* A running session without render periods: the input device hands the
\* callback blocks of one frame and then, in the last CaptureCalls of the
\* MaxCaptures capture periods, any block of up to MaxData samples.
CaptureSamples == {-4, 2}

RECURSIVE Blocks(_)
Blocks(n) ==
    IF n = 0 THEN {<<>>}
    ELSE {Append(b, x) : b \in Blocks(n - 1), x \in CaptureSamples}

AnyBlock == UNION {Blocks(n) : n \in 0..MaxData}

CaptureInit ==
    /\ settings = DefaultSettings
    /\ shared_settings = DefaultSettings
    /\ gui_pc = "idle"
    /\ gui_updates = 0
    /\ phase = "running"
    /\ sample_rate = to_hz("Rate44100") \div RateScale
    /\ max_delay_samples = MaxDelaySamples(to_hz("Rate44100") \div RateScale)
    /\ data_len = channels
    /\ out_len = channels
    /\ buffer_size = DefaultSettings.buffer_size
    /\ pitch_ref = [value |-> 10000, poisoned |-> FALSE]
    /\ dsp = NewDsp
    /\ captures = 0
    /\ channel = <<>>
    /\ sent = <<>>
    /\ captured = NoCapture
    /\ delay_buffer = <<>>
    /\ r_pc = "idle"
    /\ output = <<>>
    /\ processed_buffer = <<>>
    /\ delay_samples = 0
    /\ idx = 0
    /\ renders = 0
    /\ recvd = <<>>
    /\ dropped = {}
    /\ pushed = <<>>
    /\ emitted = <<>>
    /\ out_hist = <<>>
    /\ period = NoPeriod
    /\ steady = [d |-> -1, ok |-> TRUE, full |-> TRUE, same |-> TRUE]
    /\ blocking = {}
    /\ calls = 0
    /\ call = NoCall
    /\ proc_out = <<>>
    /\ main_pc = "gui"
    /\ shutdown_signal = FALSE
    /\ streams = {"input", "output"}
    /\ audio_exit = NoExit
    /\ flag_readers = {}
    /\ SignalInit

CaptureNext ==
    \E data \in (IF captures < MaxCaptures - CaptureCalls THEN {CaptureData(channels)}
                  ELSE AnyBlock) :
        CaptureOn(data)

CaptureSpec == CaptureInit /\ [][CaptureNext]_vars

\* ----------------------------------------------- the compressor on its own
\* everything but the signal variables, as main leaves it before the audio
\* thread runs
StartInit ==
    /\ settings = DefaultSettings
    /\ shared_settings = DefaultSettings
    /\ gui_pc = "idle"
    /\ gui_updates = 0
    /\ phase = "starting"
    /\ sample_rate = 0
    /\ max_delay_samples = 0
    /\ data_len = 0
    /\ out_len = 0
    /\ buffer_size = 0
    /\ pitch_ref = [value |-> 10000, poisoned |-> FALSE]
    /\ dsp = NewDsp
    /\ channel = <<>>
    /\ delay_buffer = <<>>
    /\ r_pc = "idle"
    /\ output = <<>>
    /\ processed_buffer = <<>>
    /\ delay_samples = 0
    /\ idx = 0
    /\ captures = 0
    /\ renders = 0
    /\ sent = <<>>
    /\ recvd = <<>>
    /\ dropped = {}
    /\ pushed = <<>>
    /\ emitted = <<>>
    /\ out_hist = <<>>
    /\ period = NoPeriod
    /\ steady = [d |-> -1, ok |-> TRUE, full |-> TRUE, same |-> TRUE]
    /\ blocking = {}
    /\ calls = 0
    /\ call = NoCall
    /\ proc_out = <<>>
    /\ captured = NoCapture
    /\ LifeInit

\* two inputs of advanced_soft_compress: any x1 of magnitude up to CompMax, and
\* an x2 of either sign whose magnitude is up to CompGap above that of x1
CompressInit ==
    /\ StartInit
    /\ sig = NewSig
    /\ sig_in = <<>>
    /\ sig_out = <<>>
    /\ comp \in {[x1 |-> a, x2 |-> sg * (Abs(a) + g), y1 |-> 0, y2 |-> 0, done |-> FALSE] :
                    a \in (-CompMax)..CompMax, sg \in {1, -1}, g \in 0..CompGap}

CompressApply ==
    /\ ~comp.done
    /\ comp' = [comp EXCEPT !.y1 = advanced_soft_compress(comp.x1),
                            !.y2 = advanced_soft_compress(comp.x2),
                            !.done = TRUE]
    /\ UNCHANGED <<guiVars, sessionVars, channel, delay_buffer, renderVars, captureVars,
                   lifeVars, pitch_ref, dsp, clientVars, sig, sig_in, sig_out>>

CompressNext == CompressApply

CompressSpec == CompressInit /\ [][CompressNext]_vars

\* ------------------------------------------------------------------ claims
Written(out) == \A p \in 1..Len(out) : out[p] # Unwritten
IsEngineSample(x) == x > 0

\* C1: every invocation of the render callback stores a delayed sample or 0.0
\* to every position of the output block, in every branch.
C1_EveryPositionWritten ==
    (r_pc = "idle" /\ renders > 0) => (Len(output) = out_len /\ Written(output))

C3_CallbacksOnlyTry == blocking = {}

\* C4: the bridge never holds more than 4 blocks; a block offered to a full
\* bridge is dropped and the queue is as before; blocks are received in the
\* order they were accepted; more than 4 captures before any render pull leave
\* exactly blocks 1..4 queued, in order.
C4_BridgeBoundedFifo ==
    /\ Len(channel) <= BridgeCapacity
    /\ recvd \o Ids(channel) = sent
    /\ \A p \in 1..Len(sent) : \A q \in 1..Len(sent) : p < q => sent[p] < sent[q]
    /\ dropped \cup {sent[p] : p \in 1..Len(sent)} = 1..captures
    /\ dropped \cap {sent[p] : p \in 1..Len(sent)} = {}
    /\ (recvd = <<>> /\ captures > BridgeCapacity)
         => (Ids(channel) = <<1, 2, 3, 4>> /\ dropped = (BridgeCapacity + 1)..captures)

C4_Witness ==
    /\ captures > BridgeCapacity
    /\ Len(recvd) = 1
    /\ recvd[1] = 1
    /\ Ids(channel) = <<2, 3, 4>>
    /\ BridgeCapacity + 1 \in dropped

\* what the frames written so far must be when the delay is D throughout
DelayedByD ==
    \A j \in 1..Len(out_hist) :
        out_hist[j] = IF j <= steady.d THEN Silence ELSE j - steady.d

\* the output block of a finished period holds the period's frames, each on
\* both channels
OutputIsLastFrames ==
    (r_pc = "idle" /\ renders > 0)
        => \A f \in 1..period.frames :
              /\ output[channels * f - 1] = out_hist[Len(out_hist) - period.frames + f]
              /\ output[channels * f] = output[channels * f - 1]

\* C5 as stated: with an empty delay line at the start, one delay length D in
\* every period and a block pulled in every period, the first D output frames
\* are 0.0 and frame D+k carries engine sample k, on both channels.
C5_DelayedByD_AnyBlock == steady.ok => (DelayedByD /\ OutputIsLastFrames)

\* C5 amended: the same, provided every pulled block holds at least as many
\* samples as the output block has frames (a shorter block leaves frames of
\* 0.0 at the end of its period, between the engine samples).
C5_DelayedByD_FullBlocks == (steady.ok /\ steady.full) => (DelayedByD /\ OutputIsLastFrames)

C5_Witness ==
    /\ steady.ok /\ steady.full
    /\ steady.d > 0
    /\ r_pc = "idle"
    /\ Len(out_hist) > steady.d + 1
    /\ out_hist[steady.d + 2] = 2

\* C6: the delay line never holds more than max_delay_samples samples, the
\* state between a push and the pop after it included.
C6_WithinCapacity == phase = "running" => Len(delay_buffer) <= max_delay_samples

\* C7: the samples popped from the delay line and written to the output are a
\* prefix of the samples pushed into it: same order, none twice, none skipped.
C7_DelayLineFifo ==
    /\ emitted \o delay_buffer = pushed
    /\ SelectSeq(out_hist, IsEngineSample) = emitted
    /\ \A p \in 1..Len(pushed) : pushed[p] = p

C7_Witness ==
    /\ r_pc = "idle"
    /\ period.lock = "ok" /\ period.pulled = 0
    /\ steady.d > delay_samples
    /\ Len(emitted) > 1
    /\ out_hist[Len(out_hist)] = emitted[Len(emitted)]

\* C8: after every call of process target_pitch is the pitch cell's value
\* clamped to [0.5, 2.0]; 5.0 is seen as 2.0 and 0.1 as 0.5.
C8_TargetClamped ==
    (calls > 0 /\ ~call.cell.poisoned)
        => LET v == call.cell.value
               t == dsp.target_pitch
           IN  /\ t >= 5000 /\ t <= 20000
               /\ (v >= 5000 /\ v <= 20000) => t = v
               /\ v > 20000 => t = 20000
               /\ v < 5000 => t = 5000

C8_Witness == calls > 0 /\ ~call.cell.poisoned /\ call.cell.value = 50000 /\ dsp.target_pitch = 20000

\* C9: when the pitch mutex is poisoned, process takes 1.0 as target pitch,
\* returns normally with its output filled, and the failure is reported (a
\* line on stderr, printed then and only then).
C9_PoisonedFallsBack ==
    calls > 0
        => /\ call.cell.poisoned
                => /\ dsp.target_pitch = 10000
                   /\ ~call.panicked
                   /\ call.logged
                   /\ Len(proc_out) = call.out_len /\ Written(proc_out)
           /\ ~call.cell.poisoned => ~call.logged

C9_Witness ==
    /\ calls > 0 /\ call.cell.poisoned /\ call.cell.value = 50000
    /\ call.in_len > 0 /\ call.out_len > 0
    /\ dsp.target_pitch = 10000 /\ call.logged

\* C10: process stores engine samples to the first min(len(input), len(output))
\* output positions and 0.0 to the rest, and advances the engine by exactly
\* that many sample steps.
C10_ProcessMinLen ==
    (calls > 0 /\ ~call.panicked)
        => LET m == IF call.in_len <= call.out_len THEN call.in_len ELSE call.out_len
           IN  /\ Len(proc_out) = call.out_len
               /\ \A p \in 1..Len(proc_out) :
                     proc_out[p] = IF p <= m THEN call.before.steps + p ELSE Silence
               /\ dsp.steps = call.before.steps + m
               /\ dsp.write_index = (call.before.write_index + m) % RingLen
               /\ dsp = DspRun([call.before EXCEPT !.target_pitch = dsp.target_pitch], m)

C10_Witness ==
    /\ calls > 0 /\ ~call.panicked
    /\ call.in_len > 0 /\ call.in_len < call.out_len
    /\ call.before.write_index = RingLen - 1
    /\ dsp.write_index = 0

\* C11: from a new engine at pitch 1.0, a block of zero samples yields only
\* outputs of magnitude below 1e-3 (one unit), and at delay 0 the output block
\* of the period carries the same values, each on both channels.
C11_ZeroInNearZeroOut ==
    (pitch_ref.value = 10000 /\ \A i \in 1..Len(sig_in) : sig_in[i] = 0)
        => /\ \A i \in 1..Len(sig_out) : Abs(sig_out[i]) < 1
           /\ (r_pc = "idle" /\ renders > 0)
                => /\ Len(output) = SigBlock * channels
                   /\ \A f \in 1..SigBlock :
                         /\ output[channels * f - 1] = sig_out[Len(sig_out) - SigBlock + f]
                         /\ output[channels * f] = sig_out[Len(sig_out) - SigBlock + f]

C11_Witness ==
    /\ pitch_ref.value = 10000
    /\ r_pc = "idle" /\ renders > 0
    /\ Len(sig_in) >= SigBlock
    /\ \A i \in 1..Len(sig_in) : sig_in[i] = 0
    /\ Len(sig_out) = Len(sig_in)
    /\ dsp.steps = Len(sig_in)

\* C12: the compressor is continuous at |x| = T - W and |x| = T + W (the knee
\* formula gives the pass-through value at T - W and the full-compression
\* value at T + W, and neighbouring magnitudes give neighbouring outputs), its
\* output magnitude does not decrease when |x| grows, and the output has the
\* sign of the input.
C12_CompressorContinuousMonotone ==
    /\ CompressKnee(threshold - knee_width) = threshold - knee_width
    /\ CompressKnee(threshold + knee_width) = CompressHard(threshold + knee_width)
    /\ comp.done
         => /\ Abs(comp.x1) <= Abs(comp.x2)
            /\ Abs(comp.y1) <= Abs(comp.y2)
            /\ Abs(comp.y2) - Abs(comp.y1) <= (Abs(comp.x2) - Abs(comp.x1)) + 1
            /\ comp.x1 > 0 => comp.y1 > 0
            /\ comp.x1 < 0 => comp.y1 < 0
            /\ comp.x1 = 0 => comp.y1 = 0
            /\ comp.x2 > 0 => comp.y2 > 0
            /\ comp.x2 < 0 => comp.y2 < 0

C12_Witness ==
    /\ comp.done
    /\ comp.x1 = -(threshold + knee_width - 1)
    /\ comp.x2 = threshold + knee_width
    /\ comp.y2 = CompressHard(threshold + knee_width)
    /\ comp.y1 < -threshold
    /\ -comp.y1 <= comp.y2

\* C13: the shutdown flag is set by main only after the control surface has
\* returned and is never reset; once it is set, a running supervising loop
\* observes it, both streams are dropped and run_audio returns Ok, and main's
\* join completes; no callback loads the flag or sleeps.
C13_ShutdownObserved ==
    /\ [](shutdown_signal => main_pc \in {"joining", "done"})
    /\ [][shutdown_signal => shutdown_signal']_vars
    /\ (shutdown_signal /\ phase = "running")
          ~> (phase = "returned" /\ streams = {} /\ audio_exit.result = "ok")
    /\ shutdown_signal ~> (main_pc = "done")
    /\ [](flag_readers \subseteq {"run_audio"} /\ "sleep" \notin blocking)

C13_Witness ==
    /\ main_pc = "done"
    /\ phase = "returned"
    /\ streams = {}
    /\ audio_exit.result = "ok"
    /\ flag_readers = {"run_audio"}
    /\ renders > 0 /\ captures > 0

\* C14: when start-up fails, run_audio returns the error without entering the
\* supervising loop, without a retry and with no stream playing; the audio
\* thread prints the error and ends; the control surface goes on handling
\* messages until it is closed, and then main terminates.
C14_StartupFailure ==
    /\ [](phase = "failed"
            => /\ streams = {}
               /\ audio_exit.result = "err" /\ audio_exit.cause \in FailureCauses
               /\ audio_exit.printed
               /\ flag_readers = {}
               /\ renders = 0 /\ captures = 0)
    /\ [][(phase' = "failed" => phase \in {"starting", "failed"})
          /\ (phase = "failed" => phase' = "failed")]_vars
    /\ [](phase = "failed" /\ main_pc = "gui" /\ gui_pc = "idle" /\ gui_updates < MaxGuiUpdates
            => ENABLED (\E m \in Messages : GuiUpdate(m)))
    /\ (phase = "failed" /\ main_pc = "closed") ~> (main_pc = "done")

C14_Witness ==
    /\ phase = "failed"
    /\ audio_exit.cause = "play_output_stream"
    /\ gui_updates > audio_exit.at_update
    /\ shared_settings # DefaultSettings
    /\ main_pc = "done"

\* C15: each of the four settings is live: a render period that takes a
\* snapshot goes on with the snapshot's pitch, delay, sample rate and buffer
\* size.
C15_AllSettingsLive ==
    [][(renders' = renders + 1 /\ gui_pc # "locked")
          => /\ pitch_ref'.value = shared_settings.pitch
             /\ sample_rate' = to_hz(shared_settings.sample_rate) \div RateScale
             /\ buffer_size' = shared_settings.buffer_size
             /\ delay_samples' = DelaySamples(shared_settings.delay_ms, sample_rate',
                                              max_delay_samples')]_vars

\* C16: after every processed sample both read cursors lie in [0, 128).
C16_CursorsInRange ==
    dsp.steps > 0
        => /\ 0 <= dsp.read_index_a /\ dsp.read_index_a < RingLen * 10000
           /\ 0 <= dsp.read_index_b /\ dsp.read_index_b < RingLen * 10000

\* C17: at every sample step the two read cursors differ modulo the buffer
\* length.
C17_CursorsApart ==
    dsp.steps > 0
        => dsp.read_index_a % (RingLen * 10000) # dsp.read_index_b % (RingLen * 10000)

\* C18: a render period that finds no block leaves the engine alone and pushes
\* nothing; frame by frame, in order, it pops the head of the delay line and
\* stores it to both channels if the line is longer than the delay length,
\* and otherwise stores 0.0 and leaves the line as it is.
C18_NoBlockPeriodDrains ==
    [][/\ (renders' = renders + 1 /\ gui_pc # "locked" /\ channel = <<>>)
            => /\ dsp' = dsp
               /\ pushed' = pushed
               /\ delay_buffer' = delay_buffer
               /\ channel' = channel
               /\ r_pc' = "drain" /\ idx' = 0
       /\ r_pc = "drain"
            => /\ dsp' = dsp
               /\ pushed' = pushed
               /\ IF Len(delay_buffer) > delay_samples
                  THEN /\ delay_buffer' = Tail(delay_buffer)
                       /\ output'[idx * channels + 1] = Head(delay_buffer)
                       /\ output'[idx * channels + 2] = Head(delay_buffer)
                  ELSE /\ delay_buffer' = delay_buffer
                       /\ output'[idx * channels + 1] = Silence
                       /\ output'[idx * channels + 2] = Silence
               /\ \A p \in 1..Len(output) :
                     p \notin {idx * channels + 1, idx * channels + 2} => output'[p] = output[p]
               /\ IF idx + 1 = out_len \div channels
                  THEN r_pc' = "idle"
                  ELSE r_pc' = "drain" /\ idx' = idx + 1]_vars

C18_Witness ==
    /\ r_pc = "idle"
    /\ period.lock = "ok" /\ period.pulled = 0 /\ period.frames = 2
    /\ Len(out_hist) >= 2
    /\ IsEngineSample(out_hist[Len(out_hist) - 1])
    /\ out_hist[Len(out_hist)] = Silence
    /\ output = <<out_hist[Len(out_hist) - 1], out_hist[Len(out_hist) - 1], Silence, Silence>>
    /\ delay_buffer = <<>>

\* C19 as stated: the pitch of the snapshot is mirrored into the pitch cell
\* after the engine has processed the period's block, so the engine works on
\* the pitch that an earlier period mirrored.
C19_MirrorAfterProcess ==
    [][(renders' = renders + 1 /\ period'.processed)
          => /\ dsp'.target_pitch = Clamp(pitch_ref.value)
             /\ pitch_ref'.value = shared_settings.pitch]_vars

\* C19 amended: the order within a period is snapshot, mirror of the
\* snapshot's pitch into the pitch cell, delay length, bridge pull with engine
\* processing; the engine processes the block of a period with the pitch of
\* that period's snapshot.
C19_MirrorBeforeProcess ==
    [][(renders' = renders + 1 /\ period'.processed)
          => /\ dsp'.target_pitch = Clamp(shared_settings.pitch)
             /\ pitch_ref'.value = shared_settings.pitch]_vars

C19_Witness ==
    /\ period.processed /\ period.changed
    /\ r_pc = "idle"
    /\ pitch_ref.value = 20000
    /\ dsp.target_pitch = 20000
    /\ dsp.current_pitch > 10000

\* C20: the shared settings record changes only when the control surface
\* stores its whole local record; outside an update the two are equal; a
\* render period takes its snapshot only while no update holds the record, so
\* what it goes on with is the local record of a completed update.
C20_WholeRecordSnapshots ==
    /\ [](gui_pc = "idle" => shared_settings = settings)
    /\ [][shared_settings' # shared_settings
             => (gui_pc = "locked" /\ gui_pc' = "idle" /\ shared_settings' = settings)]_vars
    /\ [][(renders' = renders + 1 /\ period'.lock = "ok")
             => /\ gui_pc = "idle"
                /\ shared_settings = settings
                /\ shared_settings' = shared_settings
                /\ pitch_ref'.value = settings.pitch
                /\ delay_samples' = DelaySamples(settings.delay_ms, sample_rate,
                                                 max_delay_samples)]_vars

C20_Witness ==
    /\ gui_updates = 2 /\ gui_pc = "idle"
    /\ settings = [DefaultSettings EXCEPT !.pitch = 20000, !.delay_ms = 100]
    /\ period.lock = "ok" /\ renders = 2
    /\ pitch_ref.value = 20000
    /\ delay_samples = DelaySamples(100, sample_rate, max_delay_samples)
    /\ delay_samples > 0

\* C21: the capture callback makes one mono sample per frame of 2 interleaved
\* samples, in frame order: the average of a complete frame, the first sample
\* of an incomplete last frame, ceil(len / 2) samples in all; and it offers
\* the mono block to the bridge once: the block is then the newest of the
\* queue, or it was refused and is nowhere in the queue.
C21_DownmixOfferedOnce ==
    captures > 0
        => /\ captured.id = captures
           /\ Len(captured.mono) = (Len(captured.data) + 1) \div 2
           /\ \A f \in 1..Len(captured.mono) :
                 IF 2 * f <= Len(captured.data)
                 THEN 2 * captured.mono[f] = captured.data[2 * f - 1] + captured.data[2 * f]
                 ELSE captured.mono[f] = captured.data[2 * f - 1]
           /\ Len(sent) + Cardinality(dropped) = captures
           /\ Cardinality({i \in 1..Len(channel) : channel[i].id = captured.id})
                = (IF captured.id \in dropped \/ captured.id \in {recvd[i] : i \in 1..Len(recvd)}
                   THEN 0 ELSE 1)
           /\ captured.id \notin dropped /\ renders = 0
                => channel[Len(channel)] = [id |-> captured.id, samples |-> captured.mono]

C21_Witness ==
    /\ captures = MaxCaptures
    /\ Len(captured.data) = 3
    /\ captured.data[1] # captured.data[2]
    /\ captured.mono = <<-1, captured.data[3]>>
    /\ captured.id \in dropped
    /\ Len(channel) = BridgeCapacity
    /\ Len(channel[BridgeCapacity].samples) = 2

\* C22: in every engine state current_pitch lies in [0.5, 2.0], so that
\* read_step = 1 / current_pitch is defined and lies in [0.5, 2.0], whatever
\* values the pitch cell is given.
C22_CurrentPitchInRange ==
    /\ 5000 <= dsp.current_pitch /\ dsp.current_pitch <= 20000
    /\ 5000 <= 100000000 \div dsp.current_pitch
    /\ 100000000 \div dsp.current_pitch <= 20000
    /\ 5000 <= dsp.target_pitch /\ dsp.target_pitch <= 20000

C22_Witness ==
    /\ calls = MaxCalls
    /\ call.cell.value = 1000 /\ ~call.cell.poisoned
    /\ call.before.current_pitch < 5100
    /\ dsp.steps > call.before.steps
    /\ dsp.current_pitch <= call.before.current_pitch
    /\ dsp.current_pitch >= 5000

\* C23: as long as every period that took a snapshot computed the same delay
\* length, the delay line is no longer than that length at the end of every
\* render period; so every frame of a no-block period is 0.0 and leaves the
\* delay line as it is.
C23_LineWithinDelay ==
    /\ []((steady.same /\ r_pc = "idle") => Len(delay_buffer) <= delay_samples)
    /\ [][(steady.same /\ r_pc = "drain" /\ out_hist' # out_hist)
            => /\ delay_buffer' = delay_buffer
               /\ emitted' = emitted
               /\ out_hist' = Append(out_hist, Silence)
               /\ output' = WriteFrame(output, idx, Silence)]_vars

C23_Witness ==
    /\ renders = MaxRenders /\ r_pc = "idle"
    /\ steady.same /\ steady.d > 0
    /\ period.lock = "ok" /\ period.pulled = 0 /\ period.frames > 1
    /\ Len(delay_buffer) = delay_samples
    /\ delay_samples = steady.d
    /\ \A p \in 1..Len(output) : output[p] = Silence
    /\ emitted = <<>>

\* C24: in a period with a block every processed sample is pushed, which
\* lengthens the delay line by one, and then either nothing is popped (the
\* line is not longer than the delay length, 0.0 is the frame's sample) or
\* exactly one sample is popped, the head; so a sample changes the length by
\* +1 or by 0, and the line gets shorter over a sample in frames of no-block
\* periods only.
C24_BlockPathNeverShrinks ==
    /\ [](r_pc = "pop"
            => /\ Len(delay_buffer) > 0 /\ Len(pushed) > 0
               /\ delay_buffer[Len(delay_buffer)] = pushed[Len(pushed)])
    /\ [][/\ r_pc = "push"
            => /\ r_pc' = "pop"
               /\ Len(delay_buffer') = Len(delay_buffer) + 1
               /\ emitted' = emitted /\ out_hist' = out_hist
          /\ r_pc = "pop"
            => /\ r_pc' \in {"push", "idle"}
               /\ pushed' = pushed
               /\ IF Len(delay_buffer) > delay_samples
                  THEN /\ delay_buffer' = Tail(delay_buffer)
                       /\ emitted' = Append(emitted, Head(delay_buffer))
                       /\ out_hist'[Len(out_hist) + 1] = Head(delay_buffer)
                  ELSE /\ delay_buffer' = delay_buffer
                       /\ emitted' = emitted
                       /\ out_hist'[Len(out_hist) + 1] = Silence
          /\ Len(delay_buffer') < Len(delay_buffer)
            => \/ r_pc = "pop"
               \/ r_pc = "drain" /\ period.pulled = 0]_vars

C24_Witness ==
    /\ renders = MaxRenders /\ r_pc = "idle"
    /\ period.lock = "ok" /\ period.processed /\ period.block_len > 1
    /\ Len(recvd) = MaxRenders
    /\ steady.d > 0 /\ delay_samples = 0
    /\ Len(delay_buffer) = steady.d
    /\ Len(pushed) > Len(delay_buffer) + 1

\* C25: a render invocation that finds the settings mutex held changes
\* nothing: the bridge keeps its blocks, the engine, the pitch cell and the
\* delay line are as before, no sample is pushed or emitted, and every
\* position of the output block is as the device handed it in.
C25_ContendedChangesNothing ==
    [][(renders' = renders + 1 /\ SettingsBusy)
          => /\ Ids(channel') = Ids(channel) /\ channel' = channel
             /\ recvd' = recvd
             /\ dsp' = dsp
             /\ pitch_ref' = pitch_ref
             /\ delay_buffer' = delay_buffer
             /\ pushed' = pushed /\ emitted' = emitted
             /\ processed_buffer' = processed_buffer
             /\ blocking' = blocking
             /\ Len(output') = out_len
             /\ \A p \in 1..Len(output') : output'[p] = Unwritten
             /\ period'.pulled = 0 /\ ~period'.processed]_vars

C25_Witness ==
    /\ period.lock = "busy" /\ r_pc = "idle"
    /\ renders = MaxRenders
    /\ channel # <<>>
    /\ dsp.steps > 0
    /\ delay_buffer # <<>>
    /\ Len(output) > 0
    /\ \A p \in 1..Len(output) : output[p] = Unwritten

\* C26: a render period pulls at most one block, the head of the bridge, and
\* hands the engine the first min(output frames, block length) samples of it
\* and nothing else; the rest of the block is dropped with the block, the
\* engine and the delay line get samples at no other step, so in all the
\* engine has processed, and the line has been given, no more than one
\* output block's frames a pulled block.  A pulled block that is empty zeroes
\* the output and leaves the engine and the delay line alone.
C26_OnlyBlockPrefixFed ==
    /\ [](/\ dsp.steps <= Len(recvd) * (out_len \div channels)
          /\ r_pc = "idle" => Len(pushed) = dsp.steps)
    /\ [][/\ (recvd' # recvd \/ dsp' # dsp \/ Len(channel') < Len(channel))
             => renders' = renders + 1
          /\ (renders' = renders + 1 /\ ~SettingsBusy /\ channel # <<>>)
             => LET block == Head(channel).samples
                    m == Min(out_len \div channels, Len(block))
                IN  /\ channel' = Tail(channel)
                    /\ recvd' = Append(recvd, Head(channel).id)
                    /\ period'.fed = SubSeq(block, 1, m)
                    /\ dsp'.steps = dsp.steps + m
                    /\ Len(processed_buffer') = m
                    /\ delay_buffer' = delay_buffer
                    /\ block = <<>>
                         => /\ dsp' = dsp
                            /\ r_pc' = "idle"
                            /\ Len(output') = out_len
                            /\ \A p \in 1..Len(output') : output'[p] = Silence
          /\ (renders' = renders + 1 /\ channel = <<>>)
             => (recvd' = recvd /\ dsp' = dsp /\ channel' = channel)]_vars

C26_Witness ==
    /\ renders = MaxRenders /\ r_pc = "idle"
    /\ Len(recvd) = MaxRenders
    /\ period.block_len > period.frames
    /\ Len(captured.mono) > 1
    /\ period.fed = <<captured.mono[1]>>
    /\ dsp.steps = MaxRenders
    /\ Len(pushed) = MaxRenders

====
